---- MODULE Spec2Model ----
(***************************************************************************)
(* Model of src/main.py: a FastAPI service with three handlers, /upload,   *)
(* /ask and /health, sharing one persisted file (CSV_PATH) and the         *)
(* interpreter's import state (whether tabulate can be imported).          *)
(*                                                                         *)
(* The handlers are coroutines on one event loop.  upload_file suspends    *)
(* once, at "await file.read()" (line 56); everything after it, and the    *)
(* whole of ask and health_check, runs without suspending, so each is one  *)
(* atomic step.  What the environment decides (the uploaded bytes, whether *)
(* the file write raises and how much it wrote, whether pip works, what    *)
(* the inference backend answers) is drawn with \E in the actions.         *)
(*                                                                         *)
(* A file's content is the sequence of its lines: line 1 is the header (a  *)
(* sequence of column names), the others are rows.  A row's cells are      *)
(* abstracted to one value.  A write that fails leaves whole lines; a line *)
(* cut in the middle is not modelled.                                      *)
(***************************************************************************)
EXTENDS Integers, Sequences, FiniteSets, TLC

VARIABLES
    csv,        \* the file at CSV_PATH: [exists, lines, meant]
    tabulate,   \* whether "import tabulate" succeeds in this interpreter
    pipTarget,  \* where "pip install" puts packages: "this_env" or "other_env"
    inflight,   \* upload requests suspended at "await file.read()"
    resp,       \* the last completed request: its inputs and its response
    everSaved,  \* history: some upload has returned 200
    prevAsk     \* history: the last /ask before resp that sent a prompt,
                \* forgotten when the file changes

vars == <<csv, tabulate, pipTarget, inflight, resp, everSaved, prevAsk>>

(***************************************************************************)
(* Bounds of the model.                                                    *)
(***************************************************************************)
MaxExtraRows == 1   \* rows an uploaded table may have beyond the preview
MaxInFlight == 1    \* uploads that may be suspended at once

(***************************************************************************)
(* Program constants.                                                      *)
(***************************************************************************)
OLLAMA_MODEL == "phi3"
required_columns == {"date", "product", "quantity", "total"}
HeadSize == 5       \* df.head() keeps the first 5 rows
Temperature == 0    \* options={'temperature': 0}

(***************************************************************************)
(* The inputs the requests are drawn from.                                 *)
(***************************************************************************)
HdrFull == <<"date", "product", "quantity", "total">>
HdrExtra == <<"region", "total", "date", "product", "quantity">>
HdrNoTotal == <<"date", "product", "quantity">>
HdrOne == <<"product", "region">>

RowVals == {1, 2}
MaxRows == HeadSize + MaxExtraRows

\* n rows: the first HeadSize of them v, the rows after them w.
TableRows(n, v, w) == [i \in 1..n |-> IF i <= HeadSize THEN v ELSE w]

\* One row, or enough rows to fill the preview and go beyond it.
RowSeqs == {TableRows(n, 1, w) : n \in {1} \cup (HeadSize..MaxRows), w \in RowVals}

Frames ==
    [columns : {HdrFull}, rows : RowSeqs]
        \cup [columns : {HdrExtra, HdrNoTotal, HdrOne}, rows : {<<2>>}]

Questions == {"What is the total?", "Top product?"}

ModelNames == {"phi3", "llama3"}

Range(s) == {s[i] : i \in 1..Len(s)}

(***************************************************************************)
(* Exceptions and HTTP errors.  str(e) is the exception's message, which   *)
(* for the ValueError of line 61 carries the set of missing columns.       *)
(***************************************************************************)
Exc(type, msg, cols) == [type |-> type, msg |-> msg, cols |-> cols]
NoExc == Exc("none", "", {})
UnicodeDecodeError == Exc("UnicodeDecodeError", "'utf-8' codec can't decode byte", {})
EmptyDataError == Exc("EmptyDataError", "No columns to parse from file", {})
OSError == Exc("OSError", "No space left on device", {})
CalledProcessError == Exc("CalledProcessError", "pip returned non-zero exit status", {})
ResponseError == Exc("ResponseError", "connection refused", {})

Detail(text, cols) == [text |-> text, cols |-> cols]
NoDetail == Detail("", {})
str(e) == Detail(e.msg, e.cols)

\* The messages of lines 51, 74 and 96, and the framework's answer to an
\* exception that leaves a handler.
ModelServerError == Detail("Erro no servidor de modelos", {})
NotFound == Detail("Arquivo nao encontrado. Faca upload primeiro.", {})
ProcessingError == Detail("Erro ao processar a pergunta", {})
InternalServerError == Detail("Internal Server Error", {})

(***************************************************************************)
(* The file and the tabular library.                                       *)
(***************************************************************************)
\* `meant` is history: the lines the last write to the file was given.
File(exists, lines, meant) == [exists |-> exists, lines |-> lines, meant |-> meant]
NoFile == File(FALSE, <<>>, <<>>)

\* DataFrame.to_csv(index=False): the header line, then one line per row.
to_csv(df) == <<df.columns>> \o df.rows

\* pd.read_csv: no line at all raises EmptyDataError; otherwise the first
\* line is the header and the others are the rows.
read_csv_ok(lines) == Len(lines) > 0
read_csv(lines) == [columns |-> lines[1], rows |-> SubSeq(lines, 2, Len(lines))]

\* What an upload may carry: bytes that are not UTF-8, an empty text, or the
\* text of a table.
Undecodable == [utf8 |-> FALSE, lines |-> <<>>]
Text(lines) == [utf8 |-> TRUE, lines |-> lines]
UploadContents == {Undecodable, Text(<<>>)} \cup {Text(to_csv(df)) : df \in Frames}
NoContents == Text(<<>>)

\* How df.to_csv(CSV_PATH) may end: it opens the file for writing, which
\* truncates it, and writes the lines.  "ok": all lines written.
\* "open_failed": the open raised, the file is as it was.  "io_failed": a
\* write raised after `written` lines (fewer than all) reached the file.
WriteOutcomes(lines) ==
    {[kind |-> "ok", written |-> Len(lines)], [kind |-> "open_failed", written |-> 0]}
        \cup {[kind |-> "io_failed", written |-> k] : k \in 0..(Len(lines) - 1)}

\* A bug to_csv_file does not have: the file opened for appending.
to_csv_file_append(file, df, w) ==
    IF w.kind = "open_failed" THEN file
    ELSE File(TRUE, file.lines \o SubSeq(to_csv(df), 1, w.written), to_csv(df))

\* The file after df.to_csv(CSV_PATH, index=False) ended as w.
to_csv_file(file, df, w) ==
    IF w.kind = "open_failed" THEN file
    ELSE File(TRUE, SubSeq(to_csv(df), 1, w.written), to_csv(df))

(***************************************************************************)
(* The last completed request.  in_* are its inputs and what the           *)
(* environment did during it, the rest is the HTTP response; `cause` is    *)
(* the exception behind an error response, `calls` the number of           *)
(* ollama.generate calls the request made, `sent` the last of them.        *)
(***************************************************************************)
NoPreview == [fmt |-> "none", columns |-> <<>>, rows |-> <<>>]
NoContext == [preview |-> NoPreview, question |-> ""]
NoRequest == [model |-> "", prompt |-> NoContext, temperature |-> 0 - 1]
NoAnswer == [prompt |-> NoContext, sample |-> 0]
NoHealth == [csv_loaded |-> FALSE, ollama_running |-> FALSE, model_available |-> FALSE]
NoListing == [kind |-> "none", names |-> {}]

NoResp ==
    [op |-> "none", status |-> 0, detail |-> NoDetail, cause |-> NoExc,
     in_contents |-> NoContents, in_write |-> "none", in_existed |-> FALSE,
     columns |-> <<>>,
     in_question |-> "", in_generate |-> <<>>, calls |-> 0, sent |-> NoRequest,
     question |-> "", answer |-> NoAnswer,
     in_listing |-> NoListing, health |-> NoHealth]

(***************************************************************************)
(* POST /upload, lines 53-67.                                              *)
(***************************************************************************)
\* A bug MissingColumns does not have: only one missing column reported.
MissingColumnsFirst(columns) ==
    LET missing == required_columns \ Range(columns)
    IN  IF missing = {} THEN {} ELSE {CHOOSE c \in missing : TRUE}

\* Line 60: required_columns - set(df.columns).
MissingColumns(columns) == required_columns \ Range(columns)

\* Lines 65-67: every exception raised in the handler becomes a 400 whose
\* detail is str(e).
UploadError(e) == [status |-> 400, detail |-> str(e), cause |-> e]

\* The handler from line 57 on, for the bytes `contents` read at line 56 and
\* the write ending as w: the file it leaves and its response.
upload_file(file, contents, w) ==
    LET base == [NoResp EXCEPT !.op = "upload", !.in_contents = contents,
                               !.in_existed = file.exists]
        fail(e) == [base EXCEPT !.status = UploadError(e).status,
                                !.detail = UploadError(e).detail,
                                !.cause = UploadError(e).cause]
    IN  IF ~contents.utf8
            THEN [file |-> file, resp |-> fail(UnicodeDecodeError)]
        ELSE IF ~read_csv_ok(contents.lines)
            THEN [file |-> file, resp |-> fail(EmptyDataError)]
        ELSE LET df == read_csv(contents.lines)
                 missing == MissingColumns(df.columns)
             IN  IF missing # {}
                     THEN [file |-> file,
                           resp |-> fail(Exc("ValueError", "Colunas faltando", missing))]
                 ELSE IF w.kind # "ok"
                     THEN [file |-> to_csv_file(file, df, w),
                           resp |-> [fail(OSError) EXCEPT !.in_write = w.kind]]
                 ELSE [file |-> to_csv_file(file, df, w),
                       resp |-> [base EXCEPT !.status = 200, !.in_write = w.kind,
                                             !.columns = df.columns]]

(***************************************************************************)
(* POST /ask, lines 33-51 and 69-96.                                       *)
(***************************************************************************)
\* Lines 33-39.  With tabulate importable nothing happens.  Otherwise pip
\* runs with check=True: a failing pip raises CalledProcessError, a working
\* one makes tabulate importable when it installs into this interpreter's
\* environment.
install_missing_dependencies(tab, target, pip_ok) ==
    IF tab THEN [raised |-> FALSE, tabulate |-> TRUE]
    ELSE IF ~pip_ok THEN [raised |-> TRUE, tabulate |-> FALSE]
    ELSE [raised |-> FALSE, tabulate |-> (target = "this_env")]

\* A bug df_head does not have: the whole table kept.
df_head_all(df) == df

\* df.head(): the first HeadSize rows.
df_head(df) ==
    [columns |-> df.columns,
     rows |-> SubSeq(df.rows, 1, IF Len(df.rows) < HeadSize THEN Len(df.rows) ELSE HeadSize)]

\* The two renderings of a frame: its columns and its rows, each row with its
\* index, which starts at 0.
Indexed(rows) == [i \in 1..Len(rows) |-> <<i - 1, rows[i]>>]
to_markdown(df) == [fmt |-> "markdown", columns |-> df.columns, rows |-> Indexed(df.rows)]
to_string(df) == [fmt |-> "string", columns |-> df.columns, rows |-> Indexed(df.rows)]

\* Lines 78-81: to_markdown needs tabulate, and raises without it; the bare
\* except then renders with to_string.
data_preview(df, tab) == IF tab THEN to_markdown(df_head(df)) ELSE to_string(df_head(df))

\* Lines 83-89: the prompt, whose fixed sentences are left out.
context(preview, question) == [preview |-> preview, question |-> question]

\* The backend's text for a request that returns: with temperature 0 it is
\* decided by the prompt, otherwise the sampling takes part.
ollama_generate(request, sample) ==
    [prompt |-> request.prompt,
     sample |-> IF request.temperature = 0 THEN 0 ELSE sample]

\* How the calls a request makes to ollama.generate would end, one after the
\* other: the first returns, or it raises and a second one, were it made,
\* would return or raise.
BackendRuns == {<<"returns">>, <<"throws", "returns">>, <<"throws", "throws">>}

\* A bug get_ollama_response does not have: a failed call tried once more.
get_ollama_response_retry(prompt, outcomes, sample) ==
    LET request == [model |-> OLLAMA_MODEL, prompt |-> prompt, temperature |-> Temperature]
        n == IF outcomes[1] = "returns" THEN 1 ELSE 2
    IN  IF outcomes[n] = "returns"
            THEN [calls |-> n, sent |-> request, raised |-> FALSE, status |-> 200,
                  detail |-> NoDetail, cause |-> NoExc,
                  answer |-> ollama_generate(request, sample)]
            ELSE [calls |-> n, sent |-> request, raised |-> TRUE, status |-> 500,
                  detail |-> ModelServerError, cause |-> ResponseError,
                  answer |-> NoAnswer]

\* Lines 41-51: one ollama.generate call; outcomes[i] is how the i-th call
\* to the backend would end.  Whatever it raises becomes the 500 of line 51.
get_ollama_response(prompt, outcomes, sample) ==
    LET request == [model |-> OLLAMA_MODEL, prompt |-> prompt, temperature |-> Temperature]
    IN  IF outcomes[1] = "returns"
            THEN [calls |-> 1, sent |-> request, raised |-> FALSE, status |-> 200,
                  detail |-> NoDetail, cause |-> NoExc,
                  answer |-> ollama_generate(request, sample)]
            ELSE [calls |-> 1, sent |-> request, raised |-> TRUE, status |-> 500,
                  detail |-> ModelServerError, cause |-> ResponseError,
                  answer |-> NoAnswer]

\* The handler: the interpreter's tabulate state it leaves and its response.
ask(file, tab, target, question, pip_ok, outcomes, sample) ==
    LET base == [NoResp EXCEPT !.op = "ask", !.in_question = question,
                               !.in_existed = file.exists]
        dep == install_missing_dependencies(tab, target, pip_ok)
    IN  IF dep.raised
            \* line 71 is outside every try: the framework answers 500
            THEN [tabulate |-> dep.tabulate,
                  resp |-> [base EXCEPT !.status = 500, !.detail = InternalServerError,
                                        !.cause = CalledProcessError]]
        ELSE IF ~file.exists
            THEN [tabulate |-> dep.tabulate,
                  resp |-> [base EXCEPT !.status = 404, !.detail = NotFound]]
        ELSE IF ~read_csv_ok(file.lines)
            \* lines 94-96
            THEN [tabulate |-> dep.tabulate,
                  resp |-> [base EXCEPT !.status = 500, !.detail = ProcessingError,
                                        !.cause = EmptyDataError]]
        ELSE LET df == read_csv(file.lines)
                 prompt == context(data_preview(df, dep.tabulate), question)
                 got == get_ollama_response(prompt, outcomes, sample)
                 called == [base EXCEPT !.in_generate = outcomes, !.calls = got.calls,
                                        !.sent = got.sent]
             IN  IF got.raised
                     \* lines 92-93: the HTTPException of line 51 passes through
                     THEN [tabulate |-> dep.tabulate,
                           resp |-> [called EXCEPT !.status = got.status,
                                                   !.detail = got.detail,
                                                   !.cause = got.cause]]
                     ELSE [tabulate |-> dep.tabulate,
                           resp |-> [called EXCEPT !.status = 200,
                                                   !.question = question,
                                                   !.answer = got.answer]]

(***************************************************************************)
(* GET /health, lines 98-119.                                              *)
(***************************************************************************)
\* How ollama.list()['models'] and the scan of the names may end: the call
\* raises, the answer lacks a key the code reads, or the names are scanned,
\* OLLAMA_MODEL among them or not.
Listings ==
    {[kind |-> k, names |-> {}] : k \in {"unreachable", "malformed"}}
        \cup {[kind |-> "ok", names |-> ns] : ns \in {{}, {"llama3"}, ModelNames}}

\* A bug health_check does not have: ollama_running set before the listing.
health_check_eager(file, listing) ==
    [csv_loaded |-> file.exists,
     ollama_running |-> TRUE,
     model_available |-> listing.kind = "ok" /\ OLLAMA_MODEL \in listing.names]

\* Lines 101-116: the status starts with both backend fields false, and the
\* update of lines 109-112 happens only when nothing in the inner try raised.
health_check(file, listing) ==
    LET status == [csv_loaded |-> file.exists, ollama_running |-> FALSE,
                   model_available |-> FALSE]
    IN  IF listing.kind = "ok"
            THEN [status EXCEPT !.ollama_running = TRUE,
                                !.model_available = OLLAMA_MODEL \in listing.names]
            ELSE status

(***************************************************************************)
(* The actions.                                                            *)
(***************************************************************************)
NoAsk ==
    [some |-> FALSE, question |-> "", sent |-> NoRequest, status |-> 0,
     answer |-> NoAnswer]

\* Every action remembers the /ask it overwrites in resp, when that /ask
\* called the backend.
Remember ==
    IF resp.op = "ask" /\ resp.calls > 0
        THEN [some |-> TRUE, question |-> resp.in_question, sent |-> resp.sent,
              status |-> resp.status, answer |-> resp.answer]
        ELSE prevAsk

Init ==
    /\ csv = NoFile
    /\ tabulate \in BOOLEAN
    \* pip runs only while tabulate is missing: with tabulate importable one
    \* pipTarget stands for both
    /\ pipTarget \in (IF tabulate THEN {"this_env"} ELSE {"this_env", "other_env"})
    /\ inflight = 0
    /\ resp = NoResp
    /\ everSaved = FALSE
    /\ prevAsk = NoAsk

\* A request arrives and the handler suspends at "await file.read()".
UploadBegin ==
    /\ inflight < MaxInFlight
    /\ inflight' = inflight + 1
    /\ UNCHANGED <<csv, tabulate, pipTarget, resp, everSaved, prevAsk>>

\* The read completes and the handler runs to its end.
UploadFinish ==
    /\ inflight > 0
    /\ \E contents \in UploadContents :
        \E w \in WriteOutcomes(contents.lines) :
            LET r == upload_file(csv, contents, w)
            IN  /\ csv' = r.file
                /\ resp' = r.resp
                /\ everSaved' = (everSaved \/ r.resp.status = 200)
                /\ prevAsk' = IF r.file = csv THEN Remember ELSE NoAsk
    /\ inflight' = inflight - 1
    /\ UNCHANGED <<tabulate, pipTarget>>

Ask ==
    /\ \E question \in Questions, pip_ok \in BOOLEAN, sample \in {1, 2} :
        \E outcomes \in BackendRuns :
            LET r == ask(csv, tabulate, pipTarget, question, pip_ok, outcomes, sample)
            IN  /\ tabulate' = r.tabulate
                /\ resp' = r.resp
    /\ prevAsk' = Remember
    /\ UNCHANGED <<csv, pipTarget, inflight, everSaved>>

Health ==
    /\ \E listing \in Listings :
        resp' = [NoResp EXCEPT !.op = "health", !.status = 200,
                               !.in_existed = csv.exists,
                               !.in_listing = listing,
                               !.health = health_check(csv, listing)]
    /\ prevAsk' = Remember
    /\ UNCHANGED <<csv, tabulate, pipTarget, inflight, everSaved>>

Next ==
    \/ UploadBegin
    \/ UploadFinish
    \/ Ask
    \/ Health

Spec == Init /\ [][Next]_vars

(***************************************************************************)
(* What the claims speak of.                                               *)
(***************************************************************************)
\* The upload decoded and parsed, so it has a header.
Parsed(contents) == contents.utf8 /\ Len(contents.lines) > 0
HeaderOf(contents) == contents.lines[1]
LacksRequired(contents) ==
    Parsed(contents) /\ ~(required_columns \subseteq Range(HeaderOf(contents)))
HasRequired(contents) ==
    Parsed(contents) /\ required_columns \subseteq Range(HeaderOf(contents))

\* The first n elements of a sequence.
FirstRows(rows, n) == [i \in 1..(IF Len(rows) < n THEN Len(rows) ELSE n) |-> rows[i]]

(***************************************************************************)
(* C1.  An upload whose parsed header lacks a required column is answered  *)
(* 400, the detail names every missing required column, and the file is    *)
(* what it was before the request.                                         *)
(***************************************************************************)
C1_MissingColumnsRejected ==
    [][(resp'.op = "upload" /\ LacksRequired(resp'.in_contents)) =>
            /\ resp'.status = 400
            /\ resp'.detail.cols =
                    required_columns \ Range(HeaderOf(resp'.in_contents))
            /\ csv' = csv]_vars

\* An upload lacking several columns was rejected while a table was persisted.
C1_Witness ==
    /\ resp.op = "upload"
    /\ LacksRequired(resp.in_contents)
    /\ Cardinality(required_columns \ Range(HeaderOf(resp.in_contents))) > 1
    /\ resp.status = 400
    /\ resp.in_existed
    /\ csv.exists

(***************************************************************************)
(* C2, as claimed.  An upload with all required columns always succeeds:   *)
(* the file becomes exactly the parsed table and the returned columns are  *)
(* the parsed header, in order.                                            *)
(***************************************************************************)
C2_ValidUploadAlwaysSucceeds ==
    (resp.op = "upload" /\ HasRequired(resp.in_contents)) =>
        /\ resp.status = 200
        /\ csv.exists
        /\ csv.lines = to_csv(read_csv(resp.in_contents.lines))
        /\ resp.columns = HeaderOf(resp.in_contents)

(***************************************************************************)
(* C2, amended.  An upload with all required columns succeeds unless the   *)
(* file write itself raises, and then it is answered 400; when it succeeds *)
(* the file becomes exactly the parsed table, nothing of the previous one  *)
(* kept, and the returned columns are the parsed header, in order.         *)
(***************************************************************************)
C2_ValidUploadSucceedsUnlessWriteFails ==
    (resp.op = "upload" /\ HasRequired(resp.in_contents)) =>
        \/ /\ resp.status = 200
           /\ csv.exists
           /\ csv.lines = to_csv(read_csv(resp.in_contents.lines))
           /\ resp.columns = HeaderOf(resp.in_contents)
        \/ /\ resp.status = 400
           /\ resp.in_write \in {"open_failed", "io_failed"}
           /\ resp.cause = OSError

\* A table with an extra column, in another order, replaced a persisted one.
C2_Witness ==
    /\ resp.op = "upload"
    /\ resp.status = 200
    /\ resp.in_existed
    /\ resp.columns = HdrExtra
    /\ csv.lines = <<HdrExtra, 2>>

(***************************************************************************)
(* C3, as claimed.  An /ask with no persisted table is answered 404 and    *)
(* calls the backend not once, whatever the handler does first.            *)
(***************************************************************************)
C3_AskBeforeUploadIs404 ==
    (resp.op = "ask" /\ ~resp.in_existed) =>
        (resp.status = 404 /\ resp.calls = 0)

(***************************************************************************)
(* C4, as claimed.  An /ask that reads the file builds its prompt from the *)
(* rows of one whole uploaded table: the one the last write to the file    *)
(* was given, never a part of it.                                          *)
(***************************************************************************)
C4_AskReadsOneWholeTable ==
    (resp.op = "ask" /\ resp.calls > 0) =>
        LET whole == read_csv(csv.meant)
        IN  /\ resp.sent.prompt.preview.columns = whole.columns
            /\ resp.sent.prompt.preview.rows = Indexed(FirstRows(whole.rows, HeadSize))

(***************************************************************************)
(* C5, as claimed.  /health reports csv_loaded true exactly when some      *)
(* earlier upload succeeded: a failed upload never creates the file.       *)
(***************************************************************************)
C5_HealthReflectsUploads ==
    (resp.op = "health") => (resp.health.csv_loaded = everSaved)

(***************************************************************************)
(* C6, as claimed.  After a failed upload the file is a complete table,    *)
(* the previous one or the new one, never a part of one.                   *)
(***************************************************************************)
C6_NoPartialWrites ==
    (resp.op = "upload" /\ resp.status # 200) => (csv.lines = csv.meant)

(***************************************************************************)
(* C7, as claimed.  A validation error's message reaches the caller as it  *)
(* is; the message of any other exception never does.                      *)
(***************************************************************************)
C7_OnlyValidationDetailExposed ==
    /\ (resp.status >= 400 /\ resp.cause.type = "ValueError") =>
            (resp.detail = str(resp.cause))
    /\ (resp.status >= 400 /\ resp.cause.type \notin {"none", "ValueError"}) =>
            (resp.detail # str(resp.cause))

(***************************************************************************)
(* C8.  /health always answers 200 with three booleans; a failed listing   *)
(* gives ollama_running and model_available false; model_available implies *)
(* ollama_running; csv_loaded is the file's existence whatever the backend *)
(* does.                                                                   *)
(***************************************************************************)
C8_HealthSwallowsBackendFailure ==
    (resp.op = "health") =>
        /\ resp.status = 200
        /\ resp.health.csv_loaded \in BOOLEAN
        /\ resp.health.ollama_running \in BOOLEAN
        /\ resp.health.model_available \in BOOLEAN
        /\ (resp.in_listing.kind # "ok") =>
                (~resp.health.ollama_running /\ ~resp.health.model_available)
        /\ resp.health.model_available => resp.health.ollama_running
        /\ resp.health.csv_loaded = csv.exists

\* The backend was unreachable while a table was persisted.
C8_Witness ==
    /\ resp.op = "health"
    /\ resp.in_listing.kind = "unreachable"
    /\ resp.health.csv_loaded

(***************************************************************************)
(* C9.  With a table persisted, an /ask calls the backend at most once; if *)
(* the call raises, the answer is the 500 of the model server, not the     *)
(* processing error and not the exception's text; if it returns, the       *)
(* answer is 200 with the question asked and the backend's text.           *)
(***************************************************************************)
C9_OneBackendCallNoRetry ==
    (resp.op = "ask" /\ resp.in_existed) =>
        /\ resp.calls <= 1
        /\ (resp.calls = 1 /\ resp.in_generate[1] = "throws") =>
                /\ resp.status = 500
                /\ resp.detail = ModelServerError
                /\ resp.detail # ProcessingError
                /\ resp.detail # str(resp.cause)
        /\ (resp.calls = 1 /\ resp.in_generate[1] = "returns") =>
                /\ resp.status = 200
                /\ resp.question = resp.in_question
                /\ \E sample \in {1, 2} : resp.answer = ollama_generate(resp.sent, sample)

\* The one call raised, though a second one would have returned.
C9_Witness ==
    /\ resp.op = "ask"
    /\ resp.in_existed
    /\ resp.calls = 1
    /\ resp.in_generate = <<"throws", "returns">>
    /\ resp.status = 500

====
